---- MODULE Spec2Model ----
(***************************************************************************)
(* A model of scripts/tts/coqui-xtts-server.py: the HTTP handlers of the   *)
(* voice-cloning TTS server and the file system they work on.              *)
(*                                                                         *)
(* A file name is a record [dir, stem, ext]; a stem is a sequence of       *)
(* character codes and a file's content is a sequence of bytes.  The       *)
(* event loop runs one handler at a time; a handler gives up the loop only *)
(* at an await, and clone_voice is the only handler that awaits (the       *)
(* upload read, with the voice file already opened for writing).           *)
(*                                                                         *)
(* The module also models chat_with_tools of scripts/llmtools/websearch.py,*)
(* a separate program with its own variables and its own specification     *)
(* SpecChat; the server's specification Spec leaves its variables alone.   *)
(***************************************************************************)
EXTENDS Integers, Sequences, FiniteSets, TLC

VARIABLES
    platform,   \* "posix" or "nt": how the host matches file names
    fs,         \* the file system: file name -> content, for VOICES_DIR and the temp directory
    linked,     \* per voice name: clone_voice requests suspended at the await whose open file is still in the directory
    orphaned,   \* per voice name: those whose open file has been unlinked meanwhile (posix)
    engineLog,  \* the tts.tts_to_file calls made by the request that ran last
    resp        \* the response of the request that completed last

vars == <<platform, fs, linked, orphaned, engineLog, resp>>

VARIABLES
    pc,           \* where chat_with_tools is: "start", "loop", "returned" or "raised"
    messages,     \* the caller's messages list, which chat_with_tools appends to
    toolCalls,    \* msg.tool_calls of the first completion's reply
    idx,          \* the position in msg.tool_calls the for loop is at
    completions,  \* the client.chat.completions.create calls made so far
    executed,     \* the ids of the tool calls whose function was called, in order
    raised        \* the exception chat_with_tools ended with, "" if none

chatVars == <<pc, messages, toolCalls, idx, completions, executed, raised>>

----------------------------------------------------------------------------
(* Bounds and input sets *)

\* clone_voice requests that may be suspended at the await at the same time; further
\* POST /clone requests with an accepted suffix wait until one of them has resumed
MaxInflight == 1

\* voice names used by requests and by seeded files: "a" and "ab"
Stems == {<<1>>, <<1, 2>>}

\* uploaded audio payloads, of different lengths
Payloads == {<<1>>, <<2, 2>>}

\* content of a voice sample put in the directory before the server starts
SeedContent == <<3>>

\* extensions of upload file names and of seeded files
Exts == {"wav", "mp3", "m4a", "WAV", "txt"}

VoicesDir == "voces"

TempDir == "tmp"

\* names tempfile can pick, and the temp file of another program
TempStems == {<<7>>, <<8>>}

ForeignTemp == [dir |-> TempDir, stem |-> <<7>>, ext |-> "wav"]

\* files an external setup (the conversion scripts, a manual copy) may have left in VOICES_DIR
SeedFiles ==
    { [dir |-> VoicesDir, stem |-> <<1>>, ext |-> "wav"],
      [dir |-> VoicesDir, stem |-> <<1>>, ext |-> "mp3"],
      [dir |-> VoicesDir, stem |-> <<1, 2>>, ext |-> "m4a"],
      [dir |-> VoicesDir, stem |-> <<1, 2>>, ext |-> "WAV"],
      [dir |-> VoicesDir, stem |-> <<1, 2>>, ext |-> "txt"] }

----------------------------------------------------------------------------
(* File names and the file system *)

\* VOICES_DIR / f"{name}.wav"
VoicePath(name) == [dir |-> VoicesDir, stem |-> name, ext |-> "wav"]

\* case folding of an extension
Lower(ext) == IF ext = "WAV" THEN "wav" ELSE ext

\* whether the host takes the two extensions for the same one
SameExt(plat, e1, e2) == IF plat = "nt" THEN Lower(e1) = Lower(e2) ELSE e1 = e2

\* the directory entries a path names on the host
Entries(plat, f, p) ==
    {q \in DOMAIN f : q.dir = p.dir /\ q.stem = p.stem /\ SameExt(plat, q.ext, p.ext)}

\* Path.exists()
Exists(plat, f, p) == Entries(plat, f, p) # {}

\* the files of VOICES_DIR with their contents
Registry(f) == [q \in {x \in DOMAIN f : x.dir = VoicesDir} |-> f[q]]

\* the files of the temp directory
TempFiles(f) == {q \in DOMAIN f : q.dir = TempDir}

\* the file system without the entry of path p
Unlink(plat, f, p) == [q \in DOMAIN f \ Entries(plat, f, p) |-> f[q]]

\* the file system with the file of path p holding content c; an existing entry keeps its name
WriteFile(plat, f, p, c) ==
    IF Exists(plat, f, p)
    THEN [q \in DOMAIN f |-> IF q \in Entries(plat, f, p) THEN c ELSE f[q]]
    ELSE [q \in DOMAIN f \cup {p} |-> IF q = p THEN c ELSE f[q]]

----------------------------------------------------------------------------
(* list_voices *)

\* VOICES_DIR.glob("*." + ext): the entries of VOICES_DIR the pattern matches
Glob(plat, f, ext) ==
    {q \in DOMAIN f : q.dir = VoicesDir /\ SameExt(plat, q.ext, ext)}

\* a set of files as the sequence in which the directory scan yields them
RECURSIVE ScanOrder(_)
ScanOrder(S) ==
    IF S = {} THEN <<>>
    ELSE LET q == CHOOSE x \in S : TRUE IN <<q>> \o ScanOrder(S \ {q})

\* the stems of a sequence of files
StemsOf(files) == [i \in 1..Len(files) |-> files[i].stem]

\* str < str: lexicographic order on the character codes
StrLess(a, b) ==
    \E i \in 1..(Len(b)) :
        /\ \A j \in 1..(i - 1) : j <= Len(a) /\ a[j] = b[j]
        /\ \/ i > Len(a)
           \/ a[i] < b[i]

\* sorted(S)
RECURSIVE Sorted(_)
Sorted(S) ==
    IF S = {} THEN <<>>
    ELSE LET m == CHOOSE x \in S : \A y \in S \ {x} : StrLess(x, y)
         IN <<m>> \o Sorted(S \ {m})

\* the elements of a list: set(voices)
SetOf(s) == {s[i] : i \in 1..Len(s)}

\* the voices list built by the loop over the three patterns
CollectVoices(plat, f) ==
    StemsOf(ScanOrder(Glob(plat, f, "wav")))
        \o StemsOf(ScanOrder(Glob(plat, f, "mp3")))
        \o StemsOf(ScanOrder(Glob(plat, f, "m4a")))

\* ListVoicesResult without the set(): a name with two files is listed twice
ListVoicesResultNoSet(plat, f) ==
    LET v == CollectVoices(plat, f)
        RECURSIVE Ins(_, _)
        Ins(x, t) == IF t = <<>> THEN <<x>>
                     ELSE IF StrLess(Head(t), x) THEN <<Head(t)>> \o Ins(x, Tail(t))
                     ELSE <<x>> \o t
        RECURSIVE Sort(_)
        Sort(t) == IF t = <<>> THEN <<>> ELSE Ins(Head(t), Sort(Tail(t)))
    IN Sort(v)

\* the "voices" value list_voices returns
ListVoicesResult(plat, f) == Sorted(SetOf(CollectVoices(plat, f)))

Detail(prefix, text, names) == [prefix |-> prefix, text |-> text, names |-> names]

NoDetail == Detail(0, "", {})

\* a response: the handler, the voice name of the request, the status code and the payload
Response(op, name, status, detail, voices, audio, size) ==
    [op |-> op, name |-> name, status |-> status, detail |-> detail,
     voices |-> voices, audio |-> audio, size |-> size]

\* GET /voices
ListVoices ==
    /\ resp' = Response("list", <<>>, 200, NoDetail, ListVoicesResult(platform, fs), <<>>, 0)
    /\ engineLog' = <<>>
    /\ UNCHANGED <<platform, fs, linked, orphaned>>

----------------------------------------------------------------------------
(* Exceptions and how a handler turns them into a response *)

\* HTTPException(status_code, detail)
HTTPException(status, detail) == [http |-> TRUE, status_code |-> status, detail |-> detail]

\* any other exception, with its message
OtherException(text) == [http |-> FALSE, status_code |-> 0, detail |-> Detail(0, text, {})]

\* str(e): an HTTPException prints as "<status_code>: <detail>" (Starlette's __str__),
\* another exception as its message
StrOf(exc) ==
    IF exc.http THEN [exc.detail EXCEPT !.prefix = exc.status_code] ELSE exc.detail

\* except Exception as e: raise HTTPException(status_code=500, detail=str(e))
CaughtResponse(op, name, exc) == Response(op, name, 500, StrOf(exc), <<>>, <<>>, 0)

\* an HTTPException that reaches the framework becomes the response
RaisedResponse(op, name, exc) == Response(op, name, exc.status_code, exc.detail, <<>>, <<>>, 0)

----------------------------------------------------------------------------
(* generate_speech *)

\* what the engine writes on success
Audio == <<9>>

\* what tts.tts_to_file can do: write the audio, raise, or return with no file at file_path
EngineOutcomes == {"ok", "raise", "nofile"}

EngineError == "engine error"

\* the names the 404 detail enumerates: [v.stem for v in VOICES_DIR.glob('*.wav')]
AvailableVoices(plat, f) == SetOf(StemsOf(ScanOrder(Glob(plat, f, "wav"))))

\* the file system with the file tempfile.NamedTemporaryFile(suffix=".wav", delete=False) created
MkTemp(plat, f, out) == WriteFile(plat, f, out, <<>>)

\* EngineCall with the two paths swapped: the engine would write over the voice sample
EngineCallSwapped(plat, f, voice_path, out) ==
    [speaker_wav |-> out,
     sample |-> f[CHOOSE q \in Entries(plat, f, out) : TRUE],
     file_path |-> voice_path]

\* the tts.tts_to_file call: the voice sample as speaker_wav, the temp file as file_path
EngineCall(plat, f, voice_path, out) ==
    [speaker_wav |-> voice_path,
     sample |-> f[CHOOSE q \in Entries(plat, f, voice_path) : TRUE],
     file_path |-> out]

\* the file system after tts.tts_to_file returned or raised
EngineEffect(plat, f, call, outcome) ==
    CASE outcome = "ok" -> WriteFile(plat, f, call.file_path, Audio)
      [] outcome = "raise" -> f
      [] outcome = "nofile" -> Unlink(plat, f, call.file_path)

\* SynthesisBlock with the engine's error swallowed: the output file is read whatever happened
SynthesisBlockSwallowed(plat, f, call, out, outcome) ==
    LET f1 == EngineEffect(plat, f, call, outcome) IN
    IF ~Exists(plat, f1, out)
    THEN [fs |-> f1, raised |-> TRUE, exc |-> OtherException("No such file or directory"),
          audio |-> <<>>]
    ELSE [fs |-> f1, raised |-> FALSE, exc |-> OtherException(""),
          audio |-> f1[CHOOSE q \in Entries(plat, f1, out) : TRUE]]

\* the inner try block: the engine call, then the read of output_path
SynthesisBlock(plat, f, call, out, outcome) ==
    LET f1 == EngineEffect(plat, f, call, outcome) IN
    IF outcome = "raise"
    THEN [fs |-> f1, raised |-> TRUE, exc |-> OtherException(EngineError), audio |-> <<>>]
    ELSE IF ~Exists(plat, f1, out)
    THEN [fs |-> f1, raised |-> TRUE, exc |-> OtherException("No such file or directory"),
          audio |-> <<>>]
    ELSE [fs |-> f1, raised |-> FALSE, exc |-> OtherException(""),
          audio |-> f1[CHOOSE q \in Entries(plat, f1, out) : TRUE]]

\* RemoveTemp with the removal left out
RemoveTempSkipped(plat, f, out) == f

\* the finally block: os.remove(output_path), its own failure ignored
RemoveTemp(plat, f, out) == Unlink(plat, f, out)

\* the handler's whole run on file system f: the response, the file system and the engine calls
GenerateSpeechRun(plat, f, voice, out, outcome) ==
    LET voice_path == VoicePath(voice) IN
    IF ~Exists(plat, f, voice_path)
    THEN [resp |-> CaughtResponse("tts", voice,
                      HTTPException(404, Detail(0, "Voice not found. Available voices:",
                                                AvailableVoices(plat, f)))),
          fs |-> f,
          engineLog |-> <<>>]
    ELSE LET f1 == MkTemp(plat, f, out)
             call == EngineCall(plat, f1, voice_path, out)
             r == SynthesisBlock(plat, f1, call, out, outcome)
             f2 == RemoveTemp(plat, r.fs, out)
         IN [resp |-> IF r.raised
                      THEN CaughtResponse("tts", voice, r.exc)
                      ELSE Response("tts", voice, 200, NoDetail, <<>>, r.audio, 0),
             fs |-> f2,
             engineLog |-> <<call>>]

\* POST /tts
GenerateSpeech(voice, out, outcome) ==
    /\ out \notin DOMAIN fs
    /\ LET run == GenerateSpeechRun(platform, fs, voice, out, outcome) IN
         /\ resp' = run.resp
         /\ fs' = run.fs
         /\ engineLog' = run.engineLog
    /\ UNCHANGED <<platform, linked, orphaned>>

TempPaths == {[dir |-> TempDir, stem |-> s, ext |-> "wav"] : s \in TempStems}

----------------------------------------------------------------------------
(* clone_voice *)

\* audio.filename.endswith(('.wav', '.mp3', '.m4a'))
AcceptedSuffix(ext) == ext \in {"wav", "mp3", "m4a"}

\* the clone_voice requests suspended at the await
Inflight == {n \in Stems : linked[n] + orphaned[n] > 0}

RECURSIVE SumOver(_, _)
SumOver(g, S) ==
    IF S = {} THEN 0
    ELSE LET n == CHOOSE x \in S : TRUE IN g[n] + SumOver(g, S \ {n})

InflightCount == SumOver(linked, Stems) + SumOver(orphaned, Stems)

\* open(voice_path, "wb"): the file is created, or truncated if it exists
OpenForWrite(plat, f, p) == WriteFile(plat, f, p, <<>>)

\* f.write(content) on a file opened at offset 0 whose content is cur
WriteAtStart(cur, content) ==
    content \o SubSeq(cur, Len(content) + 1, Len(cur))

\* POST /clone up to the await: the suffix check, then the open for writing
CloneVoice(name, ext) ==
    IF ~AcceptedSuffix(ext)
    THEN /\ resp' = CaughtResponse("clone", name,
                       HTTPException(400, Detail(0, "Audio must be WAV, MP3, or M4A format", {})))
         /\ engineLog' = <<>>
         /\ UNCHANGED <<platform, fs, linked, orphaned>>
    ELSE /\ InflightCount < MaxInflight
         /\ fs' = OpenForWrite(platform, fs, VoicePath(name))
         /\ linked' = [linked EXCEPT ![name] = @ + 1]
         /\ engineLog' = <<>>
         /\ UNCHANGED <<platform, orphaned, resp>>

\* the file system after f.write(content) and the close, for a file still in the directory
WriteUpload(plat, f, p, content) ==
    LET q == CHOOSE x \in Entries(plat, f, p) : TRUE
    IN WriteFile(plat, f, p, WriteAtStart(f[q], content))

\* POST /clone from the await on, the open file still linked: the write and the response
CloneVoiceResume(name, content) ==
    /\ linked[name] > 0
    /\ fs' = WriteUpload(platform, fs, VoicePath(name), content)
    /\ linked' = [linked EXCEPT ![name] = @ - 1]
    /\ resp' = Response("clone", name, 200, NoDetail, <<>>, <<>>, Len(content))
    /\ engineLog' = <<>>
    /\ UNCHANGED <<platform, orphaned>>

\* POST /clone from the await on, the open file unlinked meanwhile: the write reaches no directory entry
CloneVoiceResumeOrphan(name, content) ==
    /\ orphaned[name] > 0
    /\ orphaned' = [orphaned EXCEPT ![name] = @ - 1]
    /\ resp' = Response("clone", name, 200, NoDetail, <<>>, <<>>, Len(content))
    /\ engineLog' = <<>>
    /\ UNCHANGED <<platform, fs, linked>>

----------------------------------------------------------------------------
(* delete_voice *)

\* DELETE /voices/{voice_name}
DeleteVoice(name) ==
    LET voice_path == VoicePath(name) IN
    /\ engineLog' = <<>>
    /\ UNCHANGED platform
    /\ IF ~Exists(platform, fs, voice_path)
       THEN /\ resp' = RaisedResponse("delete", name,
                          HTTPException(404, Detail(0, "Voice not found", {})))
            /\ UNCHANGED <<fs, linked, orphaned>>
       ELSE IF platform = "nt" /\ linked[name] > 0
       THEN \* unlink of a file that is open fails; the error is not caught by the handler
            /\ resp' = Response("delete", name, 500, Detail(0, "Internal Server Error", {}),
                                <<>>, <<>>, 0)
            /\ UNCHANGED <<fs, linked, orphaned>>
       ELSE /\ fs' = Unlink(platform, fs, voice_path)
            /\ orphaned' = [orphaned EXCEPT ![name] = @ + linked[name]]
            /\ linked' = [linked EXCEPT ![name] = 0]
            /\ resp' = Response("delete", name, 200, Detail(0, "deleted successfully", {}),
                                <<>>, <<>>, 0)

----------------------------------------------------------------------------
(* chat_with_tools *)

\* tool calls a reply may carry
MaxToolCalls == 2

\* FUNCTIONS
FUNCTIONS == {"yandex_search"}

\* function names a reply may use: the registered one and one that is not registered
ToolNames == {"yandex_search", "web_fetch"}

\* tc.function.arguments of a reply: nothing, a JSON object with a query, a JSON array,
\* and text that is not JSON
ArgStrings == {"NONE", "QUERY_OBJECT", "ARRAY", "MALFORMED"}

\* the id of the tool call at a position of the reply
CallIds == <<"call_c", "call_a", "call_d", "call_b">>

\* the replies' tool_calls lists
ToolCallLists ==
    UNION { [1..n -> [name : ToolNames, arguments : ArgStrings]] : n \in 0..MaxToolCalls }

\* a tool call of the reply: tc.id, tc.function.name, tc.function.arguments
ToolCall(id, name, arguments) ==
    [id |-> id, function |-> [name |-> name, arguments |-> arguments]]

\* a message of the conversation
Message(role, content, tool_calls, tool_call_id) ==
    [role |-> role, content |-> content, tool_calls |-> tool_calls,
     tool_call_id |-> tool_call_id]

\* the messages demo() starts from
InitialMessages ==
    << Message("system", "Be concise.", <<>>, ""),
       Message("user", "Find two reliable pages.", <<>>, "") >>

\* the assistant message: every tool call of the reply, in the reply's order
AssistantMessage(calls) ==
    Message("assistant", "",
            [i \in 1..Len(calls) |->
                [id |-> calls[i].id, type |-> "function",
                 function |-> [name |-> calls[i].function.name,
                               arguments |-> calls[i].function.arguments]]],
            "")

\* the tool message of a tool call: {"role": "tool", "tool_call_id": tc.id, "content": json.dumps(result)}
ToolMessage(tc) == Message("tool", "results", <<>>, tc.id)

\* json.loads(tc.function.arguments or "{}"): whether it parses, and what to
JsonLoads(arguments) ==
    CASE arguments = "NONE" -> [ok |-> TRUE, value |-> "EMPTY_OBJECT"]
      [] arguments = "QUERY_OBJECT" -> [ok |-> TRUE, value |-> "QUERY_OBJECT"]
      [] arguments = "ARRAY" -> [ok |-> TRUE, value |-> "ARRAY"]
      [] arguments = "MALFORMED" -> [ok |-> FALSE, value |-> ""]

\* IsKnown with the check left out: every name passes
IsKnownAny(name) == TRUE

\* name in FUNCTIONS
IsKnown(name) == name \in FUNCTIONS

\* whether FUNCTIONS[name](**args) binds: args is a mapping that gives yandex_search its query
Binds(value) == value = "QUERY_OBJECT"

\* the first client.chat.completions.create and what follows it up to the loop
FirstCompletion(calls) ==
    /\ pc = "start"
    /\ completions' = completions + 1
    /\ toolCalls' = calls
    /\ IF calls = <<>>
       THEN /\ pc' = "returned"
            /\ UNCHANGED messages
       ELSE /\ pc' = "loop"
            /\ messages' = Append(messages, AssistantMessage(calls))
    /\ UNCHANGED <<idx, executed, raised>>
    /\ UNCHANGED vars

\* one round of the for loop; toolRaises: whether the function, once called, raises
ToolRound(toolRaises) ==
    /\ pc = "loop"
    /\ idx <= Len(toolCalls)
    /\ LET tc == toolCalls[idx]
           name == tc.function.name
           args == JsonLoads(tc.function.arguments)
       IN IF ~args.ok
          THEN /\ pc' = "raised"
               /\ raised' = "JSONDecodeError"
               /\ UNCHANGED <<messages, idx, executed>>
          ELSE IF ~IsKnown(name)
          THEN /\ pc' = "raised"
               /\ raised' = "RuntimeError"
               /\ UNCHANGED <<messages, idx, executed>>
          ELSE IF ~Binds(args.value)
          THEN /\ pc' = "raised"
               /\ raised' = "TypeError"
               /\ UNCHANGED <<messages, idx, executed>>
          ELSE IF toolRaises
          THEN /\ pc' = "raised"
               /\ raised' = "RequestException"
               /\ executed' = Append(executed, tc.id)
               /\ UNCHANGED <<messages, idx>>
          ELSE /\ messages' = Append(messages, ToolMessage(tc))
               /\ executed' = Append(executed, tc.id)
               /\ idx' = idx + 1
               /\ UNCHANGED <<pc, raised>>
    /\ UNCHANGED <<toolCalls, completions>>
    /\ UNCHANGED vars

\* the second client.chat.completions.create, after the loop, and the return
FinalCompletion ==
    /\ pc = "loop"
    /\ idx > Len(toolCalls)
    /\ completions' = completions + 1
    /\ pc' = "returned"
    /\ UNCHANGED <<messages, toolCalls, idx, executed, raised>>
    /\ UNCHANGED vars

\* chat_with_tools about to be called by demo()
ChatInit ==
    /\ pc = "start"
    /\ messages = InitialMessages
    /\ toolCalls = <<>>
    /\ idx = 1
    /\ completions = 0
    /\ executed = <<>>
    /\ raised = ""

----------------------------------------------------------------------------

Init ==
    /\ platform \in {"posix", "nt"}
    /\ \E S \in SUBSET SeedFiles :
         fs = [q \in S \cup {ForeignTemp} |-> SeedContent]
    /\ linked = [n \in Stems |-> 0]
    /\ orphaned = [n \in Stems |-> 0]
    /\ engineLog = <<>>
    /\ resp = Response("none", <<>>, 0, NoDetail, <<>>, <<>>, 0)
    /\ ChatInit

Next ==
    \/ ListVoices /\ UNCHANGED chatVars
    \/ \E voice \in Stems, out \in TempPaths, outcome \in EngineOutcomes :
         GenerateSpeech(voice, out, outcome) /\ UNCHANGED chatVars
    \/ \E name \in Stems, ext \in Exts : CloneVoice(name, ext) /\ UNCHANGED chatVars
    \/ \E name \in Stems, content \in Payloads :
         CloneVoiceResume(name, content) /\ UNCHANGED chatVars
    \/ \E name \in Stems, content \in Payloads :
         CloneVoiceResumeOrphan(name, content) /\ UNCHANGED chatVars
    \/ \E name \in Stems : DeleteVoice(name) /\ UNCHANGED chatVars

Spec == Init /\ [][Next]_vars

\* the server as it is while chat_with_tools runs: not started
ServerIdle ==
    /\ platform = "posix"
    /\ fs = [q \in {ForeignTemp} |-> SeedContent]
    /\ linked = [n \in Stems |-> 0]
    /\ orphaned = [n \in Stems |-> 0]
    /\ engineLog = <<>>
    /\ resp = Response("none", <<>>, 0, NoDetail, <<>>, <<>>, 0)

InitChat == ServerIdle /\ ChatInit

NextChat ==
    \/ \E calls \in ToolCallLists :
         FirstCompletion([i \in 1..Len(calls) |->
                            ToolCall(CallIds[i], calls[i].name, calls[i].arguments)])
    \/ \E toolRaises \in BOOLEAN : ToolRound(toolRaises)
    \/ FinalCompletion

SpecChat == InitChat /\ [][NextChat]_chatVars

----------------------------------------------------------------------------
(* The requests as steps, for the properties below *)

\* a POST /tts step for the voice; the first conjunct follows from the second and only
\* makes the evaluation on the other handlers' steps short
TtsStep(voice) ==
    /\ resp'.op = "tts"
    /\ \E out \in TempPaths, outcome \in EngineOutcomes : GenerateSpeech(voice, out, outcome)

\* a POST /tts step for the voice in which the engine raises
TtsRaiseStep(voice) ==
    /\ resp'.op = "tts"
    /\ \E out \in TempPaths : GenerateSpeech(voice, out, "raise")

\* the step in which a POST /clone for the name returns its success response
CloneDoneStep(name) ==
    \E content \in Payloads :
        CloneVoiceResume(name, content) \/ CloneVoiceResumeOrphan(name, content)

\* the names GET /voices would return on file system f
Listed(plat, f) == SetOf(ListVoicesResult(plat, f))

\* the accepted audio extensions
AudioExts == {"wav", "mp3", "m4a"}

\* the contents a voice file holds when it was written whole
CompleteContents == Payloads \cup {SeedContent}

----------------------------------------------------------------------------
(* C1 *)

\* C1: a POST /tts whose voice has no <name>.wav in the voices directory fails with
\* status 404, and the engine is not invoked for it.
C1_UnknownVoiceIs404 ==
    [][\A voice \in Stems :
         (~Exists(platform, fs, VoicePath(voice)) /\ TtsStep(voice))
            => (resp'.status = 404 /\ engineLog' = <<>>)]_vars

(* C2 *)

\* C2: a POST /clone whose file name ends in none of .wav, .mp3, .m4a fails with
\* status 400 and leaves the voices directory exactly as it was.
C2_BadSuffixIs400 ==
    [][\A name \in Stems, ext \in Exts :
         (~AcceptedSuffix(ext) /\ CloneVoice(name, ext))
            => (resp'.status = 400 /\ Registry(fs') = Registry(fs))]_vars

(* C3 *)

\* C3: after a POST /tts for a voice that has its .wav file, whether the engine wrote
\* the audio, raised, or left nothing to read, the temp files are those that were
\* there before the request.
C3_NoTempFileLeft ==
    [][\A voice \in Stems :
         (Exists(platform, fs, VoicePath(voice)) /\ TtsStep(voice))
            => (TempFiles(fs') = TempFiles(fs)
                /\ \A t \in TempFiles(fs) : fs'[t] = fs[t])]_vars

\* a POST /tts in which the engine raised has completed, and only the other program's temp file is there
C3_Witness ==
    /\ resp.op = "tts"
    /\ resp.status = 500
    /\ resp.detail.text = EngineError
    /\ Len(engineLog) = 1
    /\ TempFiles(fs) = {ForeignTemp}

(* C4 *)

\* C4: DELETE /voices/{name} of a name GET /voices lists succeeds and GET /voices no
\* longer lists the name; of a name it does not list, it fails with status 404 and
\* leaves the directory unchanged.
C4_DeleteFollowsList ==
    [][\A name \in Stems :
         DeleteVoice(name)
            => IF name \in Listed(platform, fs)
               THEN resp'.status = 200 /\ name \notin Listed(platform, fs')
               ELSE resp'.status = 404 /\ Registry(fs') = Registry(fs)]_vars

(* C5 *)

\* C5: when a POST /clone with an accepted suffix returns success, GET /voices lists
\* the name and POST /tts finds the voice, with no other operation needed.
C5_CloneMakesVisible ==
    [][\A name \in Stems :
         CloneDoneStep(name)
            => (resp'.status = 200
                /\ name \in Listed(platform, fs')
                /\ Exists(platform, fs', VoicePath(name)))]_vars

(* C6 *)

\* C6: when POST /tts fails because the voice is not found, the names its failure
\* detail enumerates are the names GET /voices returns on the same directory.
C6_DetailEnumeratesList ==
    [][\A voice \in Stems :
         (~Exists(platform, fs, VoicePath(voice)) /\ TtsStep(voice))
            => resp'.detail.names = Listed(platform, fs)]_vars

(* C7 *)

\* C7: when the engine raises during a POST /tts for a voice that has its .wav file,
\* the response has status 500 and the engine's message as detail, carries no audio,
\* and the engine was called once.
C7_EngineErrorIs500 ==
    [][\A voice \in Stems :
         (Exists(platform, fs, VoicePath(voice)) /\ TtsRaiseStep(voice))
            => (/\ resp'.op = "tts"
                /\ resp'.status = 500
                /\ resp'.detail = Detail(0, EngineError, {})
                /\ resp'.audio = <<>>
                /\ Len(engineLog') = 1)]_vars

\* a POST /tts in which the engine was called and raised has completed
C7_Witness ==
    /\ resp.op = "tts"
    /\ resp.status = 500
    /\ resp.detail.text = EngineError
    /\ Len(engineLog) = 1
    /\ engineLog[1].speaker_wav = VoicePath(resp.name)

(* C8 *)

\* C8: Register and Unregister are atomic for the other requests: at every point where
\* the event loop can run another handler, each voice file in the directory holds a
\* content that was written whole, never the cut-off content of a write in progress.
C8_RegistryOpsAtomic ==
    \A q \in DOMAIN Registry(fs) : fs[q] \in CompleteContents

(* C9 *)

\* C9: a POST /tts, whatever its outcome, leaves the files of the voices directory and
\* their contents as they were.
C9_TtsKeepsRegistry ==
    [][\A voice \in Stems : TtsStep(voice) => Registry(fs') = Registry(fs)]_vars

\* a POST /tts that returned the audio has completed, the voice file still in the directory
C9_Witness ==
    /\ resp.op = "tts"
    /\ resp.status = 200
    /\ resp.audio = Audio
    /\ Exists(platform, fs, VoicePath(resp.name))

(* C10 *)

\* whether s lists each name once, in lexicographic order
StrictlySorted(s) == \A i \in 1..Len(s), j \in 1..Len(s) : i < j => StrLess(s[i], s[j])

\* C10: GET /voices succeeds and returns, once each and in lexicographic order, the
\* stems of the directory's files whose extension is wav, mp3 or m4a whatever its case.
C10_ListAnyCase ==
    [][ListVoices
         => (/\ resp'.status = 200
             /\ SetOf(resp'.voices) =
                   {q.stem : q \in {x \in DOMAIN Registry(fs) : Lower(x.ext) \in AudioExts}}
             /\ StrictlySorted(resp'.voices))]_vars

\* C10 as amended: GET /voices succeeds and returns, once each and in lexicographic
\* order, the stems of the directory's files whose extension is wav, mp3 or m4a as the
\* host matches file names: whatever its case on nt, in lower case only on posix.
C10_ListHostCase ==
    [][ListVoices
         => (/\ resp'.status = 200
             /\ SetOf(resp'.voices) =
                   {q.stem : q \in {x \in DOMAIN Registry(fs) :
                                       IF platform = "nt" THEN Lower(x.ext) \in AudioExts
                                       ELSE x.ext \in AudioExts}}
             /\ StrictlySorted(resp'.voices)
             /\ (DOMAIN Registry(fs) = {} => resp'.voices = <<>>))]_vars

\* GET /voices has answered with two names, one of them the name of two files, on a
\* posix host whose directory also holds a file with an upper-case extension
C10_Witness ==
    /\ resp.op = "list"
    /\ Len(resp.voices) = 2
    /\ platform = "posix"
    /\ \E q \in DOMAIN Registry(fs) : q.ext = "WAV"
    /\ \E q1 \in DOMAIN Registry(fs), q2 \in DOMAIN Registry(fs) :
          q1.stem = q2.stem /\ q1.ext = "wav" /\ q2.ext = "mp3"
    /\ resp.voices = ListVoicesResult(platform, fs)

(* C11 *)

\* the number of messages chat_with_tools was called with
Base == Len(InitialMessages)

\* the positions of the reply's tool calls that name a function not in FUNCTIONS
UnknownPositions ==
    {i \in 1..Len(toolCalls) : toolCalls[i].function.name \notin FUNCTIONS}

\* the position in the reply of the tool call with the id
PositionOf(id) == CHOOSE i \in 1..Len(toolCalls) : toolCalls[i].id = id

\* at most two completion calls, one when the reply has no tool calls, and no way back
\* from the end
C11_AtMostTwoCalls ==
    /\ completions <= 2
    /\ pc = "returned" => completions = (IF toolCalls = <<>> THEN 1 ELSE 2)
    /\ pc \in {"returned", "raised"} => ~ENABLED NextChat

\* a reply without tool calls: the return follows with messages as they were
C11_NoToolCallsNoChange ==
    (pc # "start" /\ toolCalls = <<>>) =>
        (pc = "returned" /\ messages = InitialMessages /\ completions = 1 /\ executed = <<>>)

\* a reply with tool calls: the caller's messages, then one assistant message listing
\* every tool call in order, then one tool message per tool call run so far, in the
\* reply's order and with its id; all of them are there before the second completion
C11_MessagesAppended ==
    toolCalls # <<>> =>
        /\ Len(messages) >= Base + 1
        /\ Len(messages) <= Base + 1 + Len(toolCalls)
        /\ SubSeq(messages, 1, Base) = InitialMessages
        /\ messages[Base + 1].role = "assistant"
        /\ Len(messages[Base + 1].tool_calls) = Len(toolCalls)
        /\ \A i \in 1..Len(toolCalls) :
              /\ messages[Base + 1].tool_calls[i].id = toolCalls[i].id
              /\ messages[Base + 1].tool_calls[i].type = "function"
              /\ messages[Base + 1].tool_calls[i].function = toolCalls[i].function
        /\ \A k \in (Base + 2)..Len(messages) :
              /\ messages[k].role = "tool"
              /\ messages[k].tool_call_id = toolCalls[k - Base - 1].id
        /\ \A k \in 1..Len(executed) : executed[k] = toolCalls[k].id
        /\ completions = 2 => Len(messages) = Base + 1 + Len(toolCalls)

\* a tool call naming an unknown function: chat_with_tools ends with RuntimeError, with
\* neither that tool nor a later one executed and without the second completion call
C11_UnknownAlwaysRuntimeError ==
    \A i \in UnknownPositions :
        /\ \A k \in 1..Len(executed) : PositionOf(executed[k]) < i
        /\ completions <= 1
        /\ pc \in {"returned", "raised"} => (pc = "raised" /\ raised = "RuntimeError")

\* a tool call naming an unknown function: neither that tool nor a later one is ever
\* executed, no second completion call is made, chat_with_tools does not return, and
\* when the loop ends at that tool call with arguments that parse as JSON the exception
\* is RuntimeError
C11_UnknownNeverExecuted ==
    \A i \in UnknownPositions :
        /\ \A k \in 1..Len(executed) : PositionOf(executed[k]) < i
        /\ completions <= 1
        /\ pc # "returned"
        /\ (pc = "raised" /\ idx = i /\ toolCalls[i].function.arguments # "MALFORMED")
              => raised = "RuntimeError"

\* C11: chat_with_tools makes at most two completion calls and does not loop; a reply
\* without tool calls leaves messages unchanged; otherwise the assistant message and
\* then one tool message per tool call, in order and with the matching id, are appended
\* before the second completion call; and a tool call naming a function not in
\* FUNCTIONS always ends the call with RuntimeError before that tool or a later one is
\* executed and before the second completion call.
C11_ChatWithTools ==
    /\ C11_AtMostTwoCalls
    /\ C11_NoToolCallsNoChange
    /\ C11_MessagesAppended
    /\ C11_UnknownAlwaysRuntimeError

\* C11 as amended: as C11, except that a tool call naming a function not in FUNCTIONS
\* ends the call with RuntimeError only when the loop reaches it and its arguments
\* parse as JSON; in every case neither that tool nor a later one is executed and no
\* second completion call is made.
C11_ChatWithToolsAmended ==
    /\ C11_AtMostTwoCalls
    /\ C11_NoToolCallsNoChange
    /\ C11_MessagesAppended
    /\ C11_UnknownNeverExecuted

\* the loop ran the first tool call, appended its tool message after the assistant
\* message and ended with RuntimeError at the second, which names an unknown function
C11_Witness ==
    /\ pc = "raised"
    /\ raised = "RuntimeError"
    /\ Len(toolCalls) = 2
    /\ idx = 2
    /\ toolCalls[2].function.name \notin FUNCTIONS
    /\ executed = <<toolCalls[1].id>>
    /\ Len(messages) = Base + 2
    /\ completions = 1

====
